---------------------------- MODULE Spec2Model ----------------------------
(***************************************************************************)
(* Model of openhands/server/sso_middleware.py: the SSO authentication     *)
(* gate (SSOMiddleware.dispatch), its token verification cache             *)
(* (_token_cache, _cache_cleanup, _verify_token) and the auth routes       *)
(* (/auth/callback, /auth/logout, /api/sso/me).                            *)
(*                                                                         *)
(* The server runs on one asyncio event loop: the code between two awaits  *)
(* runs without interruption, so every action below is one such stretch.   *)
(* The only awaits that separate accesses to shared state are the two      *)
(* upstream POSTs (token verification, code exchange).  Requests are       *)
(* handled concurrently: any number of them may be suspended on their      *)
(* upstream call while others arrive, and responses arrive in any order.   *)
(*                                                                         *)
(* Python values: an optional value is <<>> (None / absent) or <<v>>.      *)
(* Strings are TLA+ strings; TLC treats them as sequences of characters.   *)
(***************************************************************************)
EXTENDS Integers, Sequences, FiniteSets, TLC

(***************************************************************************)
(* Bounds of the model.                                                    *)
(***************************************************************************)
\* Number of requests that enter the gate in one behaviour of Spec.
MaxRequests == 4
\* Number of requests that enter the gate in one behaviour of SpecRoutes.
MaxRouteRequests == 2
\* Number of times the monotonic clock advances in one behaviour.
MaxTicks == 2

(***************************************************************************)
(* Configuration and constants of the module.                              *)
(***************************************************************************)
SSO_ISSUER == "https://login.orcest.ai"
SSO_CLIENT_ID == "maestrist"
SSO_CALLBACK_URL == "https://agent.orcest.ai/auth/callback"
SSO_COOKIE_NAME == "maestrist_sso_token"
_TOKEN_CACHE_TTL_SECONDS == 300
\* httpx.AsyncClient(timeout=10.0)
HTTPX_TIMEOUT_SECONDS == 10

UNAUTHENTICATED_PATH_PREFIXES ==
    << "/health", "/alive", "/auth/callback", "/auth/logout",
       "/api/litellm-models", "/api/options/models" >>

UNAUTHENTICATED_EXACT_PATHS == { "/health", "/alive" }

(***************************************************************************)
(* Python built-ins used by the code.                                      *)
(***************************************************************************)
None == <<>>
Some(v) == <<v>>
Val(o) == o[1]

\* str.startswith
StartsWith(s, prefix) ==
    /\ Len(s) >= Len(prefix)
    /\ SubSeq(s, 1, Len(prefix)) = prefix

\* the `in` operator on two strings
Contains(s, sub) ==
    \E i \in 1..(Len(s) - Len(sub) + 1) : SubSeq(s, i, i + Len(sub) - 1) = sub

UpperLetters == "ABCDEFGHIJKLMNOPQRSTUVWXYZ"
LowerLetters == "abcdefghijklmnopqrstuvwxyz"

LowerChar(c) ==
    IF \E i \in 1..26 : SubSeq(UpperLetters, i, i) = c
    THEN LET i == CHOOSE j \in 1..26 : SubSeq(UpperLetters, j, j) = c
         IN  SubSeq(LowerLetters, i, i)
    ELSE c

\* str.lower
RECURSIVE Lower(_)
Lower(s) ==
    IF Len(s) = 0 THEN ""
    ELSE LowerChar(SubSeq(s, 1, 1)) \o Lower(SubSeq(s, 2, Len(s)))

IsSpace(c) == c \in { " ", "\t", "\n", "\r" }

RECURSIVE LStrip(_)
LStrip(s) ==
    IF Len(s) > 0 /\ IsSpace(SubSeq(s, 1, 1))
    THEN LStrip(SubSeq(s, 2, Len(s)))
    ELSE s

RECURSIVE RStrip(_)
RStrip(s) ==
    IF Len(s) > 0 /\ IsSpace(SubSeq(s, Len(s), Len(s)))
    THEN RStrip(SubSeq(s, 1, Len(s) - 1))
    ELSE s

\* str.strip
Strip(s) == RStrip(LStrip(s))

\* urllib.parse.quote_plus on one character: unreserved characters are kept,
\* a space becomes "+", the reserved characters that occur in the URLs of
\* this module are percent-encoded.
QuoteChar(c) ==
    CASE c = " " -> "+"
      [] c = "/" -> "%2F"
      [] c = ":" -> "%3A"
      [] c = "?" -> "%3F"
      [] c = "=" -> "%3D"
      [] c = "&" -> "%26"
      [] OTHER   -> c

RECURSIVE QuotePlus(_)
QuotePlus(s) ==
    IF Len(s) = 0 THEN ""
    ELSE QuoteChar(SubSeq(s, 1, 1)) \o QuotePlus(SubSeq(s, 2, Len(s)))

\* urllib.parse.urlencode on a sequence of <<key, value>> pairs
RECURSIVE UrlEncode(_)
UrlEncode(params) ==
    IF Len(params) = 0 THEN ""
    ELSE QuotePlus(params[1][1]) \o "=" \o QuotePlus(params[1][2])
         \o (IF Len(params) > 1 THEN "&" ELSE "")
         \o UrlEncode(Tail(params))

(***************************************************************************)
(* Path classifier.                                                        *)
(***************************************************************************)
\* A slip that keeps only the exact-match test.
IsPublicPathExactOnly(path) == path \in UNAUTHENTICATED_EXACT_PATHS

_is_public_path(path) ==
    IF path \in UNAUTHENTICATED_EXACT_PATHS THEN TRUE
    ELSE \E i \in 1..Len(UNAUTHENTICATED_PATH_PREFIXES) :
             StartsWith(path, UNAUTHENTICATED_PATH_PREFIXES[i])

(***************************************************************************)
(* Credential extraction and client kind.                                  *)
(* A request is a record                                                   *)
(*   [path, url, cookie, authorization, accept, code, state]               *)
(* cookie: the value of the session cookie, if the request carries it;     *)
(* authorization, accept: the header values, if present; code, state:      *)
(* the query parameters, if present.                                       *)
(***************************************************************************)
\* headers.get(name, '')
HeaderOrEmpty(h) == IF h = None THEN "" ELSE Val(h)

\* A slip that tries the Authorization header before the cookie.
ExtractTokenHeaderFirst(request) ==
    LET auth_header == HeaderOrEmpty(request.authorization)
    IN  IF StartsWith(Lower(auth_header), "bearer ")
        THEN Some(Strip(SubSeq(auth_header, 8, Len(auth_header))))
        ELSE IF request.cookie # None /\ Val(request.cookie) # ""
        THEN request.cookie
        ELSE None

_extract_token(request) ==
    IF request.cookie # None /\ Val(request.cookie) # ""
    THEN request.cookie
    ELSE LET auth_header == HeaderOrEmpty(request.authorization)
         IN  IF StartsWith(Lower(auth_header), "bearer ")
             THEN Some(Strip(SubSeq(auth_header, 8, Len(auth_header))))
             ELSE None

_is_browser_request(request) ==
    Contains(HeaderOrEmpty(request.accept), "text/html")

_build_sso_login_url(redirect_after) ==
    LET params == << <<"response_type", "code">>,
                     <<"client_id", SSO_CLIENT_ID>>,
                     <<"redirect_uri", SSO_CALLBACK_URL>>,
                     <<"scope", "openid profile email">> >>
                  \o (IF redirect_after # None /\ Val(redirect_after) # ""
                      THEN << <<"state", Val(redirect_after)>> >>
                      ELSE << >>)
    IN  SSO_ISSUER \o "/authorize?" \o UrlEncode(params)

(***************************************************************************)
(* JSON bodies and upstream replies.                                       *)
(* A JSON value is an object (a set of <<key, value>> members), null, or   *)
(* some other value that is not an object (kind "array").  A body that is  *)
(* not JSON has kind "invalid": resp.json() raises on it.  Python's None   *)
(* is the value JNull.                                                     *)
(***************************************************************************)
JObject(members) == [kind |-> "object", members |-> members]
JNull == [kind |-> "null", members |-> {}]
JArray == [kind |-> "array", members |-> {}]
NotJSON == [kind |-> "invalid", members |-> {}]

\* dict.get(key, default)
Get(obj, key, default) ==
    IF \E m \in obj.members : m[1] = key
    THEN (CHOOSE m \in obj.members : m[1] = key)[2]
    ELSE default

\* An upstream reply: httpx raised an HTTPError (timeout, connection error),
\* or a response with a status code and a body.
NetworkFailure == [exc |-> TRUE, status_code |-> 0, body |-> NotJSON]
HttpReply(status_code, body) ==
    [exc |-> FALSE, status_code |-> status_code, body |-> body]

FullIdentity ==
    JObject({ <<"sub", "u1">>, <<"name", "Ada">>,
              <<"role", "admin">>, <<"email", "ada@orcest.ai">> })
EmptyObject == JObject({})
\* The body of a rejection.
ErrorBody == JObject({ <<"error", "invalid_token">> })

\* What the identity provider may answer to POST /api/token/verify.
VerifyReplies ==
    { NetworkFailure, HttpReply(401, ErrorBody) }
    \cup { HttpReply(200, b) :
             b \in { FullIdentity, EmptyObject, JNull, JArray, NotJSON } }

\* What the identity provider may answer to POST /api/token.
ExchangeReplies ==
    { NetworkFailure, HttpReply(400, ErrorBody) }
    \cup { HttpReply(200, b) :
             b \in { JObject({ <<"access_token", "tok1">> }),
                     JObject({ <<"access_token", "">> }),
                     EmptyObject, JNull, JArray, NotJSON } }

(***************************************************************************)
(* Requests that enter the gate.                                           *)
(***************************************************************************)
Origin == "https://agent.orcest.ai"

MkRequest(path, cookie, authorization, accept, code, state) ==
    [ path |-> path, url |-> Origin \o path, cookie |-> cookie,
      authorization |-> authorization, accept |-> accept,
      code |-> code, state |-> state ]

Paths == { "/health", "/healthz", "/auth/logout", "/api/sso/me", "/api/private" }
\* cookie and Authorization header of a request
Credentials ==
    { << None, None >>, << Some("tok1"), None >>,
      << None, Some("Bearer tok2") >>, << None, Some("Basic dXNlcg==") >> }
Accepts == { Some("application/json"), Some("text/html,application/xhtml+xml") }

GateRequests ==
    { MkRequest(p, c[1], c[2], acc, None, None) :
        p \in Paths, c \in Credentials, acc \in Accepts }

CallbackRequests ==
    { MkRequest("/auth/callback", None, None, Some("text/html"), code, st) :
        code \in { None, Some(""), Some("abc123") },
        st \in { None, Some(""), Some(Origin \o "/api/private") } }

\* Every request shape: the requests of SpecRoutes.
Requests == GateRequests \cup CallbackRequests

\* Token traffic on protected paths, with one public and one anonymous
\* request beside it: the requests of Spec.
TokenRequests ==
    { MkRequest("/api/sso/me", Some("tok1"), None,
                Some("application/json"), None, None),
      MkRequest("/health", Some("tok1"), None,
                Some("application/json"), None, None),
      MkRequest("/api/private", None, None,
                Some("application/json"), None, None) }

\* Cookie and Authorization header together, an empty cookie, and a Bearer
\* header in another letter case with extra blanks after the scheme.
PriorityCredentials ==
    { << None, None >>, << Some("tok1"), None >>,
      << Some("tok1"), Some("Bearer tok2") >>,
      << Some(""), Some("Bearer tok2") >>,
      << None, Some("bEARER  tok2") >>,
      << None, Some("Bearer") >> }

\* One protected path under every credential above, and a public path: the
\* requests of SpecCredentials.
CredentialRequests ==
    { MkRequest("/api/private", c[1], c[2], Some("application/json"),
                None, None) : c \in PriorityCredentials }
    \cup { MkRequest("/health", Some("tok1"), Some("Bearer tok2"),
                     Some("application/json"), None, None) }

\* The tokens the requests above can present.
Tokens ==
    { Val(_extract_token(rq)) :
        rq \in { q \in Requests \cup CredentialRequests :
                    _extract_token(q) # None } }

\* How far the clock moves in one step: the upstream timeout, or what is
\* left of the cache TTL after it (the two add up to exactly the TTL).
TickSteps ==
    { HTTPX_TIMEOUT_SECONDS, _TOKEN_CACHE_TTL_SECONDS - HTTPX_TIMEOUT_SECONDS }

(***************************************************************************)
(* HTTP responses.  An exception that leaves the middleware or a handler   *)
(* is the value Unhandled: no response was built.                          *)
(***************************************************************************)
JSONResponse(status_code, error) ==
    [ raised |-> FALSE, status_code |-> status_code, error |-> error,
      location |-> None, set_cookie |-> None, delete_cookie |-> FALSE,
      content |-> None ]

RedirectResponse(url) ==
    [ raised |-> FALSE, status_code |-> 302, error |-> "",
      location |-> Some(url), set_cookie |-> None, delete_cookie |-> FALSE,
      content |-> None ]

Unhandled ==
    [ raised |-> TRUE, status_code |-> 0, error |-> "",
      location |-> None, set_cookie |-> None, delete_cookie |-> FALSE,
      content |-> None ]

\* Placeholder while the request is still being handled.
NoResponse ==
    [ raised |-> FALSE, status_code |-> 0, error |-> "",
      location |-> None, set_cookie |-> None, delete_cookie |-> FALSE,
      content |-> None ]

\* The response of a route of the application that is not an SSO route.
AppResponse == JSONResponse(200, "")

\* A slip that answers every unauthenticated client with the JSON 401.
UnauthenticatedAlways401(request) ==
    JSONResponse(401, "authentication_required")

_unauthenticated_response(request) ==
    IF _is_browser_request(request)
    THEN RedirectResponse(_build_sso_login_url(Some(request.url)))
    ELSE JSONResponse(401, "authentication_required")

(***************************************************************************)
(* Auth routes.                                                            *)
(***************************************************************************)
\* A slip that answers 200 without the identity as content.
SsoMeNoContent(sso_user) ==
    IF sso_user = None
    THEN JSONResponse(401, "not_authenticated")
    ELSE JSONResponse(200, "")

sso_me(sso_user) ==
    IF sso_user = None
    THEN JSONResponse(401, "not_authenticated")
    ELSE [ JSONResponse(200, "") EXCEPT !.content = sso_user ]

\* A slip that redirects without clearing the cookie.
SsoLogoutKeepsCookie ==
    RedirectResponse(SSO_ISSUER \o "/logout?redirect_uri=" \o SSO_CALLBACK_URL)

sso_logout ==
    [ RedirectResponse(SSO_ISSUER \o "/logout?redirect_uri=" \o SSO_CALLBACK_URL)
        EXCEPT !.delete_cookie = TRUE ]

\* `not code`: the parameter is missing or empty
Falsy(opt) == opt = None \/ Val(opt) = ""

\* sso_callback after the exchange POST has returned (or raised).
sso_callback_exchanged(request, reply) ==
    IF reply.exc THEN JSONResponse(502, "sso_unavailable")
    ELSE IF reply.status_code # 200
    THEN JSONResponse(401, "token_exchange_failed")
    ELSE IF reply.body.kind = "invalid" THEN Unhandled   \* resp.json() raises
    ELSE IF reply.body.kind # "object" THEN Unhandled    \* .get on a non-dict
    ELSE LET access_token == Get(reply.body, "access_token", "")
         IN  IF access_token = ""
             THEN JSONResponse(401, "no_access_token")
             ELSE LET redirect_url ==
                          IF Falsy(request.state) THEN "/"
                          ELSE Val(request.state)
                  IN  [ RedirectResponse(redirect_url)
                          EXCEPT !.set_cookie = Some(access_token) ]

\* The route that serves a path (exact match of the router's paths).
Route(path) ==
    CASE path = "/auth/callback" -> "sso_callback"
      [] path = "/auth/logout"   -> "sso_logout"
      [] path = "/api/sso/me"    -> "sso_me"
      [] OTHER                   -> "app"

\* call_next(request): the downstream handler, run up to its first await on
\* an upstream call.  Handlers touch no shared state, so running them in the
\* same step as the gate hides no interleaving.
call_next(request, sso_user) ==
    LET handler == Route(request.path)
    IN  CASE handler = "sso_me" ->
               [ handler |-> handler, awaiting |-> FALSE,
                 response |-> sso_me(sso_user) ]
          [] handler = "sso_logout" ->
               [ handler |-> handler, awaiting |-> FALSE,
                 response |-> sso_logout ]
          [] handler = "sso_callback" ->
               IF Falsy(request.code)
               THEN [ handler |-> handler, awaiting |-> FALSE,
                      response |-> JSONResponse(400, "missing_code") ]
               ELSE [ handler |-> handler, awaiting |-> TRUE,
                      response |-> NoResponse ]
          [] OTHER ->
               [ handler |-> handler, awaiting |-> FALSE,
                 response |-> AppResponse ]

(***************************************************************************)
(* Gate outcomes.                                                          *)
(***************************************************************************)
GateOf(response) ==
    IF response.status_code = 302 THEN "RedirectToLogin" ELSE "Rejected401"

Rejected(request) ==
    LET response == _unauthenticated_response(request)
    IN  [ gate |-> GateOf(response), sso_user |-> None, handler |-> "none",
          awaiting |-> FALSE, response |-> response ]

Passed(request, sso_user) ==
    LET next == call_next(request, sso_user)
    IN  [ gate |-> "Admitted", sso_user |-> sso_user,
          handler |-> next.handler, awaiting |-> next.awaiting,
          response |-> next.response ]

Faulted ==
    [ gate |-> "Fault", sso_user |-> None, handler |-> "none",
      awaiting |-> FALSE, response |-> Unhandled ]

\* dispatch, lines 197-208: what the gate does with the value _verify_token
\* returned.
AfterVerify(request, user_payload) ==
    IF user_payload.kind = "null" THEN Rejected(request)
    ELSE IF user_payload.kind # "object" THEN Faulted   \* .get on a non-dict
    ELSE Passed(request,
                Some([ sub   |-> Get(user_payload, "sub", ""),
                       name  |-> Get(user_payload, "name", ""),
                       role  |-> Get(user_payload, "role", ""),
                       email |-> Get(user_payload, "email", "") ]))

(***************************************************************************)
(* Token verification cache: token -> [payload, expiry].                   *)
(***************************************************************************)
EmptyCache == [ k \in {} |-> [ payload |-> JNull, expiry |-> 0 ] ]

\* A slip that stores the TTL itself as the expiry instant.
CachePutRelativeExpiry(cache, token, payload, expiry) ==
    [ k \in DOMAIN cache \cup { token } |->
        IF k = token
        THEN [ payload |-> payload, expiry |-> _TOKEN_CACHE_TTL_SECONDS ]
        ELSE cache[k] ]

\* A slip that adds the TTL twice.
CachePutLongTTL(cache, token, payload, expiry) ==
    [ k \in DOMAIN cache \cup { token } |->
        IF k = token
        THEN [ payload |-> payload,
               expiry |-> expiry + _TOKEN_CACHE_TTL_SECONDS ]
        ELSE cache[k] ]

\* A slip that leaves the TTL out of the expiry instant.
CachePutWithoutTTL(cache, token, payload, expiry) ==
    [ k \in DOMAIN cache \cup { token } |->
        IF k = token
        THEN [ payload |-> payload,
               expiry |-> expiry - _TOKEN_CACHE_TTL_SECONDS ]
        ELSE cache[k] ]

\* _token_cache[token] = (payload, expiry)
CachePut(cache, token, payload, expiry) ==
    [ k \in DOMAIN cache \cup { token } |->
        IF k = token THEN [ payload |-> payload, expiry |-> expiry ]
        ELSE cache[k] ]

\* _token_cache.pop(token, None)
CachePop(cache, token) ==
    [ k \in DOMAIN cache \ { token } |-> cache[k] ]

\* A slip that sweeps nothing.
CacheCleanupNone(cache, clock) == cache

_cache_cleanup(cache, clock) ==
    [ k \in { j \in DOMAIN cache : ~ (cache[j].expiry <= clock) } |-> cache[k] ]

\* _verify_token, lines 99-103: the entry is served if present and not expired.
CacheHit(cache, token, clock) ==
    /\ token \in DOMAIN cache
    /\ clock < cache[token].expiry

\* A slip that takes every response for a success.
IsSuccessAny(status_code) == TRUE

\* resp.status_code == 200
IsSuccess(status_code) == status_code = 200

\* A slip that evicts the entry when the call fails on the network.
VerifyReplyEvictsOnFailure(reply) ==
    IF reply.exc
    THEN [ raised |-> FALSE, result |-> JNull, op |-> "pop" ]
    ELSE IF IsSuccess(reply.status_code)
    THEN IF reply.body.kind = "invalid"
         THEN [ raised |-> TRUE, result |-> JNull, op |-> "none" ]
         ELSE [ raised |-> FALSE, result |-> reply.body, op |-> "put" ]
    ELSE [ raised |-> FALSE, result |-> JNull, op |-> "pop" ]

\* A slip that caches the failure of a rejected token.
VerifyReplyCachesFailure(reply) ==
    IF reply.exc
    THEN [ raised |-> FALSE, result |-> JNull, op |-> "none" ]
    ELSE IF IsSuccess(reply.status_code)
    THEN IF reply.body.kind = "invalid"
         THEN [ raised |-> TRUE, result |-> JNull, op |-> "none" ]
         ELSE [ raised |-> FALSE, result |-> reply.body, op |-> "put" ]
    ELSE [ raised |-> FALSE, result |-> JNull, op |-> "put" ]

\* _verify_token, lines 113-128: what the verifier does with the reply to its
\* POST.  result is the value returned (JNull for None); op is what happens
\* to the cache entry of the token.
VerifyReply(reply) ==
    IF reply.exc
    THEN [ raised |-> FALSE, result |-> JNull, op |-> "none" ]
    ELSE IF IsSuccess(reply.status_code)
    THEN IF reply.body.kind = "invalid"
         THEN [ raised |-> TRUE, result |-> JNull, op |-> "none" ]
         ELSE [ raised |-> FALSE, result |-> reply.body, op |-> "put" ]
    ELSE [ raised |-> FALSE, result |-> JNull, op |-> "pop" ]

(***************************************************************************)
(* State.                                                                  *)
(***************************************************************************)
VARIABLES
    now,            \* time.monotonic()
    ticks,          \* how often the clock has advanced
    _token_cache,   \* the module-level verification cache
    entered,        \* number of requests that have entered the gate
    task,           \* task[r]: the handling of request r
    step,           \* what the last step did, and to which request
    history         \* per token: what the gate has seen the provider answer

vars == << now, ticks, _token_cache, entered, task, step, history >>

\* The handling of a request.  pc is "new" (not yet arrived), "verifying"
\* (suspended on the verification POST), "exchanging" (suspended on the code
\* exchange POST) or "done" (response sent, or exception raised).  gate,
\* sso_user, handler and response are the gate's outcome, the identity
\* attached to request.state, the downstream handler that ran and the
\* response.  The remaining fields record what the handling did:
\* verify_calls / exchange_calls count the upstream POSTs it issued,
\* verify_reply / exchange_reply are the replies it got, and via tells how
\* _verify_token answered ("none": not called, "cache", "network") and
\* verified is the value it returned (JNull for None), once it has.
\* deadline is the time at which the pending upstream POST times out.
\* after_fail, in the record of a step that entered _verify_token, tells
\* what history said of the token just before (see NoHistory).
NewTask ==
    [ pc |-> "new", request |-> None, token |-> None, gate |-> "",
      sso_user |-> None, handler |-> "none", response |-> NoResponse,
      verify_calls |-> 0, exchange_calls |-> 0,
      verify_reply |-> None, exchange_reply |-> None, via |-> "none",
      verified |-> None, deadline |-> 0, after_fail |-> FALSE ]

\* A finished handling leaves nothing behind in the process.
DoneTask == [ NewTask EXCEPT !.pc = "done" ]

\* What the last step did: by names the action ("init", "tick", "dispatch",
\* "verify_returns", "exchange_returns"), r the request and task its
\* handling as the step left it.  For a step that consulted the cache,
\* after_revoke and due_use tell what history said of the token just before
\* (see NoHistory).
Step(by, r, t, after_revoke, due_use) ==
    [ by |-> by, r |-> r, task |-> t,
      after_revoke |-> after_revoke, due_use |-> due_use ]

\* What the gate has seen for a token: ok is the latest 200 reply that was
\* cached (time and payload); rejected tells that a non-200 reply was
\* processed after it; revoked tells that a non-200 reply was processed for
\* the token when it had been cached before, and no call to _verify_token
\* with the token has started since; due holds the times of the cached 200
\* replies that no call to _verify_token has yet followed a full TTL later;
\* failed tells that a verification call for the token ended in a non-200
\* reply or a network failure and no call to _verify_token with the token
\* has started since; tainted tells that a non-200 reply was processed and
\* no 200 reply to a call issued after it has been processed since; stale
\* holds the requests whose verification call for the token was issued
\* before the latest non-200 reply was processed.
NoHistory ==
    [ ok |-> None, rejected |-> FALSE, revoked |-> FALSE, due |-> {},
      failed |-> FALSE, tainted |-> FALSE, stale |-> {} ]

Init ==
    /\ now = 0
    /\ ticks = 0
    /\ _token_cache = EmptyCache
    /\ entered = 0
    /\ task = [ r \in 1..MaxRequests |-> NewTask ]
    /\ step = Step("init", 0, NewTask, FALSE, FALSE)
    /\ history = [ t \in Tokens |-> NoHistory ]

InitRoutes ==
    /\ now = 0
    /\ ticks = 0
    /\ _token_cache = EmptyCache
    /\ entered = 0
    /\ task = [ r \in 1..MaxRouteRequests |-> NewTask ]
    /\ step = Step("init", 0, NewTask, FALSE, FALSE)
    /\ history = [ t \in Tokens |-> NoHistory ]

\* The step of request r ends with outcome d: the request is suspended on
\* the code exchange, or its response is sent.
Settle(by, r, t, d, after_revoke, due_use) ==
    LET e == [ t EXCEPT !.gate = d.gate, !.sso_user = d.sso_user,
                        !.handler = d.handler, !.response = d.response,
                        !.pc = IF d.awaiting THEN "exchanging" ELSE "done",
                        !.deadline = IF d.awaiting
                                     THEN now + HTTPX_TIMEOUT_SECONDS ELSE 0,
                        !.exchange_calls = IF d.awaiting THEN 1 ELSE 0 ]
    IN  /\ task' = [ task EXCEPT ![r] = IF d.awaiting THEN e ELSE DoneTask ]
        /\ step' = Step(by, r, e, after_revoke, due_use)

(***************************************************************************)
(* SSOMiddleware.dispatch up to its first await on an upstream call.       *)
(***************************************************************************)
\* Public path: straight to call_next.
DispatchPublic(r, request) ==
    /\ _is_public_path(request.path)
    /\ Settle("dispatch", r, [ NewTask EXCEPT !.request = Some(request) ],
              Passed(request, None), FALSE, FALSE)
    /\ UNCHANGED << _token_cache, history >>

\* Protected path, no credential.
DispatchNoToken(r, request) ==
    /\ ~ _is_public_path(request.path)
    /\ _extract_token(request) = None
    /\ Settle("dispatch", r, [ NewTask EXCEPT !.request = Some(request) ],
              Rejected(request), FALSE, FALSE)
    /\ UNCHANGED << _token_cache, history >>

\* Protected path with a credential: _verify_token runs the sweep and
\* consults the cache; on a miss it issues the POST and suspends.
DispatchVerify(r, request) ==
    /\ ~ _is_public_path(request.path)
    /\ _extract_token(request) # None
    /\ LET token == Val(_extract_token(request))
           h == history[token]
           swept == _cache_cleanup(_token_cache, now)
           hit == CacheHit(swept, token, now)
           due_use == \E u \in h.due : now >= u + _TOKEN_CACHE_TTL_SECONDS
           t == [ NewTask EXCEPT
                    !.request = Some(request),
                    !.token = Some(token),
                    !.via = IF hit THEN "cache" ELSE "network",
                    !.verify_calls = IF hit THEN 0 ELSE 1 ]
       IN  /\ _token_cache' = swept
           /\ history' = [ history EXCEPT ![token] =
                  [ h EXCEPT !.revoked = FALSE,
                             !.failed = FALSE,
                             !.due = { u \in h.due :
                                 now < u + _TOKEN_CACHE_TTL_SECONDS } ] ]
           /\ IF hit
              THEN Settle("dispatch", r,
                          [ t EXCEPT !.verified = Some(swept[token].payload),
                                     !.after_fail = h.failed ],
                          AfterVerify(request, swept[token].payload),
                          h.revoked, due_use)
              ELSE LET e == [ t EXCEPT
                                !.pc = "verifying",
                                !.deadline = now + HTTPX_TIMEOUT_SECONDS ]
                   IN  /\ task' = [ task EXCEPT ![r] = e ]
                       /\ step' = Step("dispatch", r,
                                       [ e EXCEPT !.after_fail = h.failed ],
                                       h.revoked, due_use)

dispatch(request) ==
    /\ entered < Len(task)
    /\ entered' = entered + 1
    /\ \/ DispatchPublic(entered + 1, request)
       \/ DispatchNoToken(entered + 1, request)
       \/ DispatchVerify(entered + 1, request)
    /\ UNCHANGED << now, ticks >>

(***************************************************************************)
(* The verification POST of request r returns: the rest of _verify_token   *)
(* and of dispatch.                                                        *)
(***************************************************************************)
verify_returns(r, reply) ==
    /\ task[r].pc = "verifying"
    /\ LET t == task[r]
           token == Val(t.token)
           failed == reply.exc \/ reply.status_code # 200
           inflight == { q \in DOMAIN task \ { r } :
                           /\ task[q].pc = "verifying"
                           /\ task[q].token = t.token }
           h == [ history[token] EXCEPT
                    !.failed = @ \/ failed,
                    !.tainted = IF reply.exc THEN @
                                ELSE IF reply.status_code # 200 THEN TRUE
                                ELSE @ /\ r \in history[token].stale,
                    !.stale = IF ~ reply.exc /\ reply.status_code # 200
                              THEN inflight ELSE @ \ { r } ]
           v == VerifyReply(reply)
       IN  /\ _token_cache' =
                  CASE v.op = "put" ->
                         CachePut(_token_cache, token, v.result,
                                  now + _TOKEN_CACHE_TTL_SECONDS)
                    [] v.op = "pop" -> CachePop(_token_cache, token)
                    [] OTHER -> _token_cache
           /\ history' = [ history EXCEPT ![token] =
                  CASE v.op = "put" ->
                         [ h EXCEPT !.ok = Some([ at |-> now,
                                                  payload |-> v.result ]),
                                    !.rejected = FALSE,
                                    !.due = h.due \cup { now } ]
                    [] v.op = "pop" ->
                         [ h EXCEPT !.rejected = TRUE,
                                    !.revoked = h.revoked \/ h.ok # None ]
                    [] OTHER -> h ]
           /\ Settle("verify_returns", r,
                     [ t EXCEPT !.verify_reply = Some(reply),
                                !.verified = IF v.raised THEN None
                                             ELSE Some(v.result) ],
                     IF v.raised THEN Faulted
                     ELSE AfterVerify(Val(t.request), v.result),
                     FALSE, FALSE)
    /\ UNCHANGED << now, ticks, entered >>

(***************************************************************************)
(* The code exchange POST of request r returns: the rest of sso_callback.  *)
(***************************************************************************)
exchange_returns(r, reply) ==
    /\ task[r].pc = "exchanging"
    /\ LET t == task[r]
       IN  /\ task' = [ task EXCEPT ![r] = DoneTask ]
           /\ step' = Step("exchange_returns", r,
                  [ t EXCEPT
                      !.pc = "done",
                      !.deadline = 0,
                      !.exchange_reply = Some(reply),
                      !.response =
                          sso_callback_exchanged(Val(t.request), reply) ],
                  FALSE, FALSE)
    /\ UNCHANGED << now, ticks, _token_cache, entered, history >>

(***************************************************************************)
(* Time passes.  An upstream POST is bounded by the httpx timeout: the     *)
(* clock does not pass the deadline of a pending call before the call has  *)
(* returned or raised (a timeout is the reply NetworkFailure).             *)
(***************************************************************************)
Pending(r) == task[r].pc \in { "verifying", "exchanging" }

Tick(d) ==
    /\ ticks < MaxTicks
    /\ \A r \in DOMAIN task : Pending(r) => now + d <= task[r].deadline
    /\ ticks' = ticks + 1
    /\ now' = now + d
    /\ step' = Step("tick", 0, NewTask, FALSE, FALSE)
    /\ UNCHANGED << _token_cache, entered, task, history >>

Next ==
    \/ \E request \in TokenRequests : dispatch(request)
    \/ \E r \in DOMAIN task, reply \in VerifyReplies : verify_returns(r, reply)
    \/ \E d \in TickSteps : Tick(d)

\* Spec: concurrent token traffic through the gate and the cache.
Spec == Init /\ [][Next]_vars

NextRoutes ==
    \/ \E request \in Requests : dispatch(request)
    \/ \E r \in DOMAIN task, reply \in VerifyReplies : verify_returns(r, reply)
    \/ \E r \in DOMAIN task, reply \in ExchangeReplies : exchange_returns(r, reply)
    \/ \E d \in TickSteps : Tick(d)

\* SpecRoutes: every request shape through the gate and the auth routes.
SpecRoutes == InitRoutes /\ [][NextRoutes]_vars

(***************************************************************************)
(* The host server aborts request r while its verification POST is         *)
(* pending: the await raises CancelledError, which _verify_token does not  *)
(* catch, so the coroutine ends there and no response is built.            *)
(***************************************************************************)
cancel(r) ==
    /\ task[r].pc = "verifying"
    /\ task' = [ task EXCEPT ![r] = DoneTask ]
    /\ step' = Step("cancel", r,
                    [ task[r] EXCEPT !.pc = "done", !.deadline = 0,
                                     !.gate = "Cancelled" ],
                    FALSE, FALSE)
    /\ UNCHANGED << now, ticks, _token_cache, entered, history >>

NextCancel ==
    \/ Next
    \/ \E r \in DOMAIN task : cancel(r)

\* SpecCancel: the token traffic of Spec, with requests aborted by the host.
SpecCancel == Init /\ [][NextCancel]_vars

NextCredentials ==
    \/ \E request \in CredentialRequests : dispatch(request)
    \/ \E r \in DOMAIN task, reply \in VerifyReplies : verify_returns(r, reply)
    \/ \E d \in TickSteps : Tick(d)

\* SpecCredentials: requests that differ in the credentials they carry.
SpecCredentials == InitRoutes /\ [][NextCredentials]_vars

(***************************************************************************)
(* Properties.                                                             *)
(***************************************************************************)
\* The request the last step handled, and what it presented.
StepRequest == Val(step.task.request)
StepToken == Val(step.task.token)

\* The last step was the arrival of a request (dispatch up to its first
\* await); it consulted the cache if the request got as far as _verify_token.
Arrived == step.by = "dispatch"
Consulted == Arrived /\ step.task.via # "none"

\* The last step sent the response of a request (or raised).
Completed == step.task.pc = "done"

\* The path is in the exact-match set or starts with an entry of the prefix
\* list.
PublicPath(path) ==
    \/ path \in UNAUTHENTICATED_EXACT_PATHS
    \/ \E i \in DOMAIN UNAUTHENTICATED_PATH_PREFIXES :
           StartsWith(path, UNAUTHENTICATED_PATH_PREFIXES[i])

\* The request carries no session cookie and no Bearer Authorization header.
NoCredential(request) ==
    /\ request.cookie = None
    /\ \/ request.authorization = None
       \/ ~ StartsWith(Lower(Val(request.authorization)), "bearer")

WantsHtml(request) ==
    request.accept # None /\ Contains(Val(request.accept), "text/html")

\* C1: a request to a protected path is admitted only with a token, and only
\* if the provider answered 200 to this request's own verification call for
\* that token, or the cache served a 200 reply for that token that was
\* processed less than the TTL before the lookup.
C1_AdmittedOnlyOnVerification ==
    ( /\ step.by \in { "dispatch", "verify_returns" }
      /\ ~ PublicPath(StepRequest.path)
      /\ step.task.gate = "Admitted" )
    => /\ step.task.token # None
       /\ step.task.token = _extract_token(StepRequest)
       /\ step.task.sso_user # None
       /\ \/ /\ step.by = "verify_returns"
             /\ step.task.via = "network"
             /\ step.task.verify_calls = 1
             /\ ~ Val(step.task.verify_reply).exc
             /\ Val(step.task.verify_reply).status_code = 200
          \/ /\ step.by = "dispatch"
             /\ step.task.via = "cache"
             /\ step.task.verify_calls = 0
             /\ history[StepToken].ok # None
             /\ Val(history[StepToken].ok).at <= now
             /\ now - Val(history[StepToken].ok).at < _TOKEN_CACHE_TTL_SECONDS

\* A request to a protected path is admitted from a cache entry that is
\* older than the upstream timeout.
C1_Witness ==
    /\ Arrived
    /\ step.task.gate = "Admitted"
    /\ step.task.via = "cache"
    /\ now - Val(history[StepToken].ok).at > HTTPX_TIMEOUT_SECONDS
    /\ ~ PublicPath(StepRequest.path)

\* C2: a request whose path is public is passed downstream without an
\* identity, without a verification call and without reading or changing
\* the cache, whatever credential it carries; no other request is passed
\* downstream without verification.
C2_PublicPathsBypassTheGate ==
    [][ step'.by = "dispatch" =>
          LET t == step'.task
          IN  /\ PublicPath(Val(t.request).path) =>
                   /\ t.gate = "Admitted"
                   /\ t.handler # "none"
                   /\ t.sso_user = None
                   /\ t.via = "none"
                   /\ t.verify_calls = 0
                   /\ _token_cache' = _token_cache
              /\ (t.gate = "Admitted" /\ t.via = "none") =>
                   PublicPath(Val(t.request).path) ]_vars

\* A public path that only the prefix list covers is served to a request
\* that carries a credential, while the cache holds an expired entry.
C2_Witness ==
    /\ Arrived
    /\ StepRequest.path \notin UNAUTHENTICATED_EXACT_PATHS
    /\ PublicPath(StepRequest.path)
    /\ StepRequest.cookie # None
    /\ step.task.gate = "Admitted"
    /\ \E k \in DOMAIN _token_cache : _token_cache[k].expiry <= now

\* C3: a request to a protected path without a credential is redirected to
\* the authorize endpoint (302) if Accept contains text/html and answered
\* 401 authentication_required otherwise; no verification call is made and
\* the cache is left as it was.
C3_NoCredentialOutcome ==
    [][ ( /\ step'.by = "dispatch"
          /\ ~ PublicPath(Val(step'.task.request).path)
          /\ NoCredential(Val(step'.task.request)) )
        => LET t == step'.task
           IN  /\ t.pc = "done"
               /\ t.handler = "none"
               /\ t.sso_user = None
               /\ ~ t.response.raised
               /\ IF WantsHtml(Val(t.request))
                  THEN /\ t.gate = "RedirectToLogin"
                       /\ t.response.status_code = 302
                       /\ t.response.location # None
                       /\ StartsWith(Val(t.response.location),
                                     SSO_ISSUER \o "/authorize?")
                  ELSE /\ t.gate = "Rejected401"
                       /\ t.response.status_code = 401
                       /\ t.response.error = "authentication_required"
               /\ t.via = "none"
               /\ t.verify_calls = 0
               /\ _token_cache' = _token_cache ]_vars

\* A browser request without a credential is redirected while the cache
\* holds an expired entry.
C3_Witness ==
    /\ Arrived
    /\ ~ PublicPath(StepRequest.path)
    /\ NoCredential(StepRequest)
    /\ step.task.gate = "RedirectToLogin"
    /\ \E k \in DOMAIN _token_cache : _token_cache[k].expiry <= now

\* The latest cached 200 reply for the token of the last step is younger
\* than the TTL.
FreshOk ==
    /\ history[StepToken].ok # None
    /\ now - Val(history[StepToken].ok).at < _TOKEN_CACHE_TTL_SECONDS

ServedFromCache ==
    /\ step.task.via = "cache"
    /\ step.task.verify_calls = 0
    /\ step.task.verified = Some(Val(history[StepToken].ok).payload)

\* C4 as stated: a call to _verify_token less than the TTL after a cached
\* 200 reply for the token is served from the cache, with that payload and
\* without a verification call.
C4_Original ==
    (Consulted /\ FreshOk) => ServedFromCache

\* C4 as amended: a call to _verify_token less than the TTL after the latest
\* cached 200 reply for the token, with no non-200 reply for the token
\* processed since that reply, is served from the cache, with the payload
\* of that reply and without a verification call.
C4_ServedFromCacheWithinTTL ==
    (Consulted /\ FreshOk /\ ~ history[StepToken].rejected)
    => ServedFromCache

\* A call is served from an entry that was stored after the clock had moved
\* and is now just short of its expiry.
C4_Witness ==
    /\ Consulted
    /\ FreshOk
    /\ ServedFromCache
    /\ Val(history[StepToken].ok).at > 0
    /\ now - Val(history[StepToken].ok).at
           = _TOKEN_CACHE_TTL_SECONDS - HTTPX_TIMEOUT_SECONDS

IssuedOneCall ==
    /\ step.task.via = "network"
    /\ step.task.verify_calls = 1
    /\ step.task.pc = "verifying"

\* C5 as stated: the first call to _verify_token a full TTL or more after a
\* cached 200 reply for the token issues exactly one verification call.
C5_Original ==
    (Consulted /\ step.due_use) => IssuedOneCall

\* C5 as amended: a call to _verify_token a full TTL or more after the
\* latest cached 200 reply for the token issues exactly one verification
\* call.
C5_OneCallAfterTTL ==
    ( /\ Consulted
      /\ history[StepToken].ok # None
      /\ now - Val(history[StepToken].ok).at >= _TOKEN_CACHE_TTL_SECONDS )
    => IssuedOneCall

\* A call arrives exactly one TTL after the latest cached 200 reply.
C5_Witness ==
    /\ Consulted
    /\ history[StepToken].ok # None
    /\ now - Val(history[StepToken].ok).at = _TOKEN_CACHE_TTL_SECONDS
    /\ IssuedOneCall

\* C6: the first call to _verify_token after a non-200 reply for a token
\* that had been cached was processed issues a verification call; it is not
\* served a cached success.
C6_Original ==
    (Consulted /\ step.after_revoke) => IssuedOneCall

\* C7: every request that has left the gate was Admitted, answered 401 or
\* redirected to login; in particular a request whose verification call
\* failed on the network was answered 401 or redirected.
C7_Original ==
    Completed =>
        /\ step.task.gate \in { "Admitted", "Rejected401", "RedirectToLogin" }
        /\ ( step.task.verify_reply # None
             /\ Val(step.task.verify_reply).exc )
           => step.task.gate \in { "Rejected401", "RedirectToLogin" }

\* C8: whatever the upstream call returned, the gate and the handlers answer
\* with a response; no exception leaves them.
C8_Original ==
    Completed =>
        /\ ~ step.task.response.raised
        /\ step.task.response.status_code
               \in { 200, 302, 400, 401, 502 }

\* The exchange reply carries a non-empty access token.
HasAccessToken(reply) ==
    /\ ~ reply.exc
    /\ reply.status_code = 200
    /\ reply.body.kind = "object"
    /\ Get(reply.body, "access_token", "") # ""

\* C9: the response of the callback by exchange outcome, and the session
\* cookie set exactly on success.
C9_Original ==
    (Completed /\ StepRequest.path = "/auth/callback") =>
        LET t == step.task
            request == StepRequest
            response == t.response
        IN  /\ Falsy(request.code) =>
                 /\ response.status_code = 400
                 /\ response.error = "missing_code"
                 /\ t.exchange_calls = 0
                 /\ t.exchange_reply = None
            /\ ~ Falsy(request.code) =>
                 /\ t.exchange_calls = 1
                 /\ t.exchange_reply # None
                 /\ LET reply == Val(t.exchange_reply)
                    IN  /\ reply.exc =>
                             /\ response.status_code = 502
                             /\ response.error = "sso_unavailable"
                        /\ (~ reply.exc /\ reply.status_code # 200) =>
                             /\ response.status_code = 401
                             /\ response.error = "token_exchange_failed"
                        /\ ( /\ ~ reply.exc
                             /\ reply.status_code = 200
                             /\ ~ HasAccessToken(reply) ) =>
                             /\ response.status_code = 401
                             /\ response.error = "no_access_token"
                        /\ HasAccessToken(reply) =>
                             /\ response.status_code = 302
                             /\ response.location =
                                    IF Falsy(request.state) THEN Some("/")
                                    ELSE request.state
                             /\ response.set_cookie =
                                    Some(Get(reply.body, "access_token", ""))
            /\ response.set_cookie # None <=>
                 ( t.exchange_reply # None
                   /\ HasAccessToken(Val(t.exchange_reply)) )

OnWhoami == Completed /\ StepRequest.path = "/api/sso/me"

\* _verify_token returned an identity payload / returned None.
VerificationSucceeded ==
    step.task.verified # None /\ Val(step.task.verified).kind = "object"
VerificationFailed ==
    step.task.verified # None /\ Val(step.task.verified).kind = "null"

WhoamiAnswers200 ==
    /\ step.task.handler = "sso_me"
    /\ step.task.response.status_code = 200
    /\ step.task.sso_user # None
    /\ step.task.response.content = step.task.sso_user
    /\ LET payload == Val(step.task.verified)
       IN  Val(step.task.sso_user) =
               [ sub   |-> Get(payload, "sub", ""),
                 name  |-> Get(payload, "name", ""),
                 role  |-> Get(payload, "role", ""),
                 email |-> Get(payload, "email", "") ]

\* The handling issued no verification call beyond the one of the gate.
OnlyTheGateVerified ==
    step.task.verify_calls = IF step.task.via = "network" THEN 1 ELSE 0

\* C10 as stated: GET /api/sso/me with a cookie whose verification succeeds
\* gets 200 with the identity, with one whose verification fails gets 401.
C10_Original ==
    (OnWhoami /\ StepRequest.cookie # None) =>
        /\ VerificationSucceeded => WhoamiAnswers200
        /\ VerificationFailed => step.task.response.status_code = 401

\* C10 as amended: GET /api/sso/me with a credential whose verification
\* succeeds gets 200 with the identity {sub, name, role, email}; with one
\* whose verification fails the gate answers 401 authentication_required,
\* or 302 to the login page if Accept contains text/html, and the handler
\* does not run.  The handler issues no verification call; it answers 200
\* exactly when the gate attached an identity, else 401 not_authenticated.
C10_WhoamiBehindTheGate ==
    OnWhoami =>
        /\ VerificationSucceeded => WhoamiAnswers200
        /\ VerificationFailed =>
             /\ step.task.handler = "none"
             /\ step.task.sso_user = None
             /\ IF WantsHtml(StepRequest)
                THEN /\ step.task.response.status_code = 302
                     /\ StartsWith(Val(step.task.response.location),
                                   SSO_ISSUER \o "/authorize?")
                ELSE /\ step.task.response.status_code = 401
                     /\ step.task.response.error = "authentication_required"
        /\ OnlyTheGateVerified
        /\ step.task.handler = "sso_me" =>
             /\ step.task.response.status_code = 200 <=> step.task.sso_user # None
             /\ step.task.response.status_code # 200 =>
                  /\ step.task.response.status_code = 401
                  /\ step.task.response.error = "not_authenticated"

\* GET /api/sso/me is answered 200 with the identity the provider returned
\* to this request's verification call.
C10_Witness ==
    /\ OnWhoami
    /\ step.by = "verify_returns"
    /\ VerificationSucceeded
    /\ WhoamiAnswers200
    /\ Val(step.task.sso_user).sub = "u1"

\* The request of the last step went through _extract_token.
Extracted == step.by \in { "dispatch", "verify_returns" }
                 /\ ~ PublicPath(StepRequest.path)

BearerHeader(request) ==
    /\ request.authorization # None
    /\ StartsWith(Lower(Val(request.authorization)), "bearer ")

\* The Authorization header after its first seven characters.
Remainder(request) ==
    SubSeq(Val(request.authorization), 8, Len(Val(request.authorization)))

\* The gate verified the token of the last step's request and nothing else.
VerifiedOnlyTheToken ==
    /\ step.task.verify_calls <= 1
    /\ step.task.via # "none"
    /\ (step.task.verified = Some(JNull))
           => step.task.gate \in { "Rejected401", "RedirectToLogin" }

\* C11 as stated: with the session cookie present the token is the cookie's
\* value; with the cookie absent and a Bearer header (any letter case) the
\* token is the remainder of the header; otherwise there is no credential.
C11_Original ==
    Extracted =>
        IF StepRequest.cookie # None
        THEN step.task.token = StepRequest.cookie
        ELSE IF BearerHeader(StepRequest)
        THEN step.task.token = Some(Remainder(StepRequest))
        ELSE step.task.token = None

\* C11 as amended: with a non-empty session cookie the token is the cookie's
\* value, the header is ignored, and the gate verifies only that token, so
\* the request is rejected when it fails whatever the header carries; with
\* the cookie absent or empty and a Bearer header (any letter case) the token
\* is the remainder of the header with surrounding blanks stripped;
\* otherwise there is no credential.
C11_ExtractionPriority ==
    Extracted =>
        IF StepRequest.cookie # None /\ Val(StepRequest.cookie) # ""
        THEN /\ step.task.token = StepRequest.cookie
             /\ VerifiedOnlyTheToken
        ELSE IF BearerHeader(StepRequest)
        THEN /\ step.task.token = Some(Strip(Remainder(StepRequest)))
             /\ VerifiedOnlyTheToken
        ELSE /\ step.task.token = None
             /\ step.task.via = "none"

\* A request with a cookie that fails verification is rejected although its
\* Authorization header carries a token that the cache holds as valid.
C11_Witness ==
    /\ step.by = "verify_returns"
    /\ StepRequest.cookie = Some("tok1")
    /\ StepRequest.authorization = Some("Bearer tok2")
    /\ step.task.token = Some("tok1")
    /\ step.task.gate = "Rejected401"
    /\ "tok2" \in DOMAIN _token_cache
    /\ _token_cache["tok2"].payload.kind = "object"
    /\ now < _token_cache["tok2"].expiry

\* C12: every GET /auth/logout, whatever credential it carries, passes the
\* gate as a public path without a verification call and without touching
\* the cache, and is answered 302 to the provider's logout endpoint with the
\* configured redirect URI and the deletion of the session cookie.
C12_LogoutUnconditional ==
    [][ ( /\ step'.by \in { "dispatch", "verify_returns", "exchange_returns" }
          /\ Val(step'.task.request).path = "/auth/logout" )
        => LET t == step'.task
           IN  /\ step'.by = "dispatch"
               /\ t.pc = "done"
               /\ t.gate = "Admitted"
               /\ t.handler = "sso_logout"
               /\ t.sso_user = None
               /\ ~ t.response.raised
               /\ t.response.status_code = 302
               /\ t.response.location =
                      Some(SSO_ISSUER \o "/logout?redirect_uri="
                               \o SSO_CALLBACK_URL)
               /\ t.response.delete_cookie
               /\ t.response.set_cookie = None
               /\ t.via = "none"
               /\ t.verify_calls = 0
               /\ t.exchange_calls = 0
               /\ _token_cache' = _token_cache ]_vars

\* A logout with a cookie that the cache holds as valid.
C12_Witness ==
    /\ Arrived
    /\ StepRequest.path = "/auth/logout"
    /\ StepRequest.cookie # None
    /\ step.task.response.delete_cookie
    /\ Val(StepRequest.cookie) \in DOMAIN _token_cache
    /\ _token_cache[Val(StepRequest.cookie)].payload.kind = "object"
    /\ now < _token_cache[Val(StepRequest.cookie)].expiry

\* The tokens whose entry the step removes from the cache.
Removed == DOMAIN _token_cache \ DOMAIN _token_cache'

\* The entries of the cache whose expiry instant has been reached.
Expired == { k \in DOMAIN _token_cache : _token_cache[k].expiry <= now }

\* C13: every call to _verify_token first removes every expired entry, of
\* every token; it serves an entry only before its expiry instant, and an
\* expired entry of the token leads to a verification call; entries are
\* removed by that sweep and by a non-200 reply, and at no other time.
C13_ExpiryCheckedOnEveryConsultation ==
    [][ /\ (step'.by = "dispatch" /\ step'.task.via # "none") =>
             LET t == step'.task
                 token == Val(t.token)
             IN  /\ DOMAIN _token_cache' = DOMAIN _token_cache \ Expired
                 /\ \A k \in DOMAIN _token_cache' :
                        _token_cache'[k] = _token_cache[k]
                 /\ t.via = "cache" =>
                        /\ token \in DOMAIN _token_cache
                        /\ now < _token_cache[token].expiry
                        /\ t.verified = Some(_token_cache[token].payload)
                 /\ (token \notin DOMAIN _token_cache \/ token \in Expired) =>
                        /\ t.via = "network"
                        /\ t.verify_calls = 1
                        /\ t.pc = "verifying"
        /\ Removed # {} =>
             \/ /\ step'.by = "dispatch"
                /\ step'.task.via # "none"
                /\ Removed = Expired
             \/ /\ step'.by = "verify_returns"
                /\ ~ Val(step'.task.verify_reply).exc
                /\ Val(step'.task.verify_reply).status_code # 200
                /\ Removed = { Val(step'.task.token) } ]_vars

\* A call to _verify_token for one token has swept the expired entry of
\* another token, exactly at its expiry instant.
C13_Witness ==
    /\ Consulted
    /\ step.task.via = "network"
    /\ \E k \in Tokens \ { StepToken } :
           /\ history[k].ok # None
           /\ ~ history[k].rejected
           /\ Val(history[k].ok).at + _TOKEN_CACHE_TTL_SECONDS = now
           /\ k \notin DOMAIN _token_cache

\* The reply that the step processed is a 200 / a non-200 response.
Replied200 ==
    /\ step'.by = "verify_returns"
    /\ ~ Val(step'.task.verify_reply).exc
    /\ Val(step'.task.verify_reply).status_code = 200
RepliedNon200 ==
    /\ step'.by = "verify_returns"
    /\ ~ Val(step'.task.verify_reply).exc
    /\ Val(step'.task.verify_reply).status_code # 200

\* The cache is as before except for the entry of token k.
SameExceptFor(k) ==
    /\ DOMAIN _token_cache' \ { k } = DOMAIN _token_cache \ { k }
    /\ \A j \in DOMAIN _token_cache' \ { k } :
           _token_cache'[j] = _token_cache[j]

\* C14: under every interleaving, each cache entry of a token holds the
\* payload of a 200 reply to a verification call for that token, with expiry
\* equal to the time that reply was processed plus the TTL; and the cache
\* changes only by the insertion of such an entry on a 200 reply, the
\* removal of the token's entry on a non-200 reply for it, and the sweep of
\* expired entries.
C14_CacheIntegrity ==
    /\ [](\A k \in DOMAIN _token_cache :
              /\ history[k].ok # None
              /\ _token_cache[k].payload = Val(history[k].ok).payload
              /\ _token_cache[k].expiry =
                     Val(history[k].ok).at + _TOKEN_CACHE_TTL_SECONDS)
    /\ [][ _token_cache' # _token_cache =>
             \/ /\ Replied200
                /\ LET k == Val(step'.task.token)
                   IN  /\ SameExceptFor(k)
                       /\ k \in DOMAIN _token_cache'
                       /\ _token_cache'[k] =
                              [ payload |-> Val(step'.task.verify_reply).body,
                                expiry |-> now + _TOKEN_CACHE_TTL_SECONDS ]
                       /\ history'[k].ok =
                              Some([ at |-> now,
                                     payload |->
                                       Val(step'.task.verify_reply).body ])
             \/ /\ RepliedNon200
                /\ SameExceptFor(Val(step'.task.token))
                /\ Val(step'.task.token) \notin DOMAIN _token_cache'
             \/ /\ step'.by = "dispatch"
                /\ step'.task.via # "none"
                /\ DOMAIN _token_cache' = DOMAIN _token_cache \ Expired
                /\ \A k \in DOMAIN _token_cache' :
                       _token_cache'[k] = _token_cache[k] ]_vars

\* Two calls for the same token were in flight together and both were
\* answered 200, at different times; the entry is that of the later reply.
C14_Witness ==
    /\ step.by = "verify_returns"
    /\ StepToken \in DOMAIN _token_cache
    /\ Cardinality(history[StepToken].due) = 2
    /\ _token_cache[StepToken].expiry = now + _TOKEN_CACHE_TTL_SECONDS
    /\ now > 0

\* The last step processed the failure of a verification call: a non-200
\* reply or a network failure.
VerificationCallFailed ==
    /\ step.by = "verify_returns"
    /\ \/ Val(step.task.verify_reply).exc
       \/ Val(step.task.verify_reply).status_code # 200

FailsOutright ==
    /\ step.task.pc = "done"
    /\ step.task.verify_calls = 1
    /\ step.task.gate \in { "Rejected401", "RedirectToLogin" }
    /\ step.task.sso_user = None
    /\ step.task.handler = "none"
    /\ step.task.response.status_code \in { 401, 302 }

\* C15 as stated: a request issues at most one verification call; when the
\* call fails the request is rejected, and the next request with the same
\* token issues a verification call of its own.
C15_Original ==
    /\ step.task.verify_calls <= 1
    /\ VerificationCallFailed => FailsOutright
    /\ (Consulted /\ step.task.after_fail) => IssuedOneCall

\* C15 as amended: a request issues at most one verification call; when the
\* call fails the request is rejected and nothing about the failure is
\* stored (a network failure leaves the cache as it is, a non-200 reply only
\* removes the token's entry); the next request with the same token issues a
\* verification call of its own unless the cache then holds an unexpired
\* entry that a 200 reply to another call for the token has put there.
C15_NoRetryNoNegativeCaching ==
    /\ [](/\ step.task.verify_calls <= 1
          /\ VerificationCallFailed => FailsOutright
          /\ ( /\ Consulted
               /\ step.task.after_fail
               /\ ~ (FreshOk /\ ~ history[StepToken].rejected) )
             => IssuedOneCall)
    /\ [][ ( /\ step'.by = "verify_returns"
             /\ \/ Val(step'.task.verify_reply).exc
                \/ Val(step'.task.verify_reply).status_code # 200 )
           => /\ SameExceptFor(Val(step'.task.token))
              /\ IF Val(step'.task.verify_reply).exc
                 THEN _token_cache' = _token_cache
                 ELSE Val(step'.task.token) \notin DOMAIN _token_cache' ]_vars

\* The request that follows a network failure for a token that was never
\* verified issues a call of its own.
C15_Witness ==
    /\ Consulted
    /\ step.task.after_fail
    /\ history[StepToken].ok = None
    /\ ~ history[StepToken].rejected
    /\ IssuedOneCall

\* The step aborts a request whose verification call is pending, or
\* processes the network failure of a verification call.
AbortedOrFailed ==
    \/ step'.by = "cancel"
    \/ /\ step'.by = "verify_returns"
       /\ Val(step'.task.verify_reply).exc

\* C16: the abort of a request whose verification call is pending, and the
\* network failure of a verification call, leave the cache as the other
\* requests have made it since the call was issued: the step inserts
\* nothing and evicts nothing, the handling of every other request is left
\* as it is, and an aborted request never acts again.
C16_AbortAndFailureLeaveTheCache ==
    [][ /\ AbortedOrFailed =>
             /\ _token_cache' = _token_cache
             /\ step'.task.sso_user = None
             /\ step'.task.gate # "Admitted"
             /\ \A q \in DOMAIN task \ { step'.r } : task'[q] = task[q]
        /\ \A q \in DOMAIN task :
               task[q].pc = "done" => task'[q] = task[q] ]_vars

\* A request is aborted while the cache holds an entry for its token that
\* another request has put there since the call was issued.
C16_Witness ==
    /\ step.by = "cancel"
    /\ StepToken \in DOMAIN _token_cache
    /\ \E q \in DOMAIN task : task[q].pc = "verifying"

(***************************************************************************)
(* Reading a URL the way its receiver does: the query string is split at   *)
(* "&" and "=", and each part is percent-decoded with "+" read as a blank. *)
(***************************************************************************)
\* Position of the first occurrence of character c in s at or after i, or 0.
RECURSIVE IndexFrom(_, _, _)
IndexFrom(s, c, i) ==
    IF i > Len(s) THEN 0
    ELSE IF SubSeq(s, i, i) = c THEN i
    ELSE IndexFrom(s, c, i + 1)

RECURSIVE Split(_, _)
Split(s, c) ==
    LET i == IndexFrom(s, c, 1)
    IN  IF i = 0 THEN << s >>
        ELSE << SubSeq(s, 1, i - 1) >> \o Split(SubSeq(s, i + 1, Len(s)), c)

RECURSIVE UnquotePlus(_)
UnquotePlus(s) ==
    IF Len(s) = 0 THEN ""
    ELSE IF SubSeq(s, 1, 1) = "+"
    THEN " " \o UnquotePlus(SubSeq(s, 2, Len(s)))
    ELSE IF SubSeq(s, 1, 1) = "%" /\ Len(s) >= 3
    THEN LET hex == SubSeq(s, 2, 3)
             c == CASE hex = "2F" -> "/"
                    [] hex = "3A" -> ":"
                    [] hex = "3F" -> "?"
                    [] hex = "3D" -> "="
                    [] hex = "26" -> "&"
                    [] OTHER -> "%" \o hex
         IN  c \o UnquotePlus(SubSeq(s, 4, Len(s)))
    ELSE SubSeq(s, 1, 1) \o UnquotePlus(SubSeq(s, 2, Len(s)))

\* The parameters of the query string of a URL, as <<name, value>> pairs.
QueryParams(url) ==
    LET q == IndexFrom(url, "?", 1)
        pairs == IF q = 0 THEN << >>
                 ELSE Split(SubSeq(url, q + 1, Len(url)), "&")
    IN  { LET kv == Split(pairs[i], "=")
          IN  << UnquotePlus(kv[1]),
                 IF Len(kv) > 1 THEN UnquotePlus(kv[2]) ELSE "" >> :
          i \in DOMAIN pairs }

\* The authorize URL asks for a code for this client, with the callback as
\* redirect URI, the three scopes, and the requested URL as state.
AuthorizeUrlFor(location, url) ==
    /\ StartsWith(location, SSO_ISSUER \o "/authorize?")
    /\ QueryParams(location) =
           { << "response_type", "code" >>,
             << "client_id", SSO_CLIENT_ID >>,
             << "redirect_uri", SSO_CALLBACK_URL >>,
             << "scope", "openid profile email" >>,
             << "state", url >> }

\* C17: the login round trip.  A redirect to login carries the requested
\* URL as state; a callback with a code and that state whose exchange
\* succeeds redirects to exactly that URL and sets the cookie to the access
\* token; and a request carrying that cookie whose verification call the
\* provider answers with 200 is admitted.
C17_Original ==
    /\ step.task.gate = "RedirectToLogin" =>
           /\ step.task.response.status_code = 302
           /\ AuthorizeUrlFor(Val(step.task.response.location),
                              StepRequest.url)
    /\ ( /\ step.by = "exchange_returns"
         /\ ~ Falsy(StepRequest.state)
         /\ HasAccessToken(Val(step.task.exchange_reply)) ) =>
           /\ step.task.response.status_code = 302
           /\ step.task.response.location = StepRequest.state
           /\ step.task.response.set_cookie =
                  Some(Get(Val(step.task.exchange_reply).body,
                           "access_token", ""))
    /\ ( /\ step.by = "verify_returns"
         /\ StepRequest.cookie # None
         /\ ~ Val(step.task.verify_reply).exc
         /\ Val(step.task.verify_reply).status_code = 200 ) =>
           /\ step.task.gate = "Admitted"
           /\ step.task.sso_user # None

\* The value of field key of the identity built from payload: the member
\* of that name, or the empty string if the payload has none.
FieldOrEmpty(payload, key) ==
    IF payload.kind = "object"
          /\ \E m \in payload.members : m[1] = key
    THEN (CHOOSE m \in payload.members : m[1] = key)[2]
    ELSE ""

\* C18: every 200 reply of the verification endpoint, whatever its payload,
\* gets the request admitted, is cached for the TTL, and attaches an
\* identity of exactly the fields sub, name, role, email, each missing one
\* set to the empty string.
C18_Original ==
    ( /\ step.by = "verify_returns"
      /\ ~ Val(step.task.verify_reply).exc
      /\ Val(step.task.verify_reply).status_code = 200 )
    => LET payload == Val(step.task.verify_reply).body
       IN  /\ step.task.gate = "Admitted"
           /\ ~ step.task.response.raised
           /\ StepToken \in DOMAIN _token_cache
           /\ _token_cache[StepToken] =
                  [ payload |-> payload,
                    expiry |-> now + _TOKEN_CACHE_TTL_SECONDS ]
           /\ step.task.sso_user =
                  Some([ sub   |-> FieldOrEmpty(payload, "sub"),
                         name  |-> FieldOrEmpty(payload, "name"),
                         role  |-> FieldOrEmpty(payload, "role"),
                         email |-> FieldOrEmpty(payload, "email") ])

\* C19: once a non-200 reply for a token has been processed, no request
\* that arrives later is admitted with the token, and the cache holds no
\* entry for it, until a 200 reply to a verification call issued after that
\* rejection is processed; a 200 reply to a call that was in flight when the
\* rejection arrived does not re-create the entry.
C19_Original ==
    \A k \in Tokens :
        history[k].tainted =>
            /\ k \notin DOMAIN _token_cache
            /\ ~ ( /\ Arrived
                   /\ step.task.token = Some(k)
                   /\ step.task.gate = "Admitted" )

\* The gate has decided the request of the last step.
Decided ==
    /\ step.by \in { "dispatch", "verify_returns", "exchange_returns" }
    /\ step.task.pc # "verifying"

\* call_next ran for the request of the last step.
Invoked == step.task.handler # "none"

\* _verify_token returned a payload for the request of the last step.
VerifierReturnedPayload ==
    step.task.verified # None /\ Val(step.task.verified).kind # "null"

\* C20: the downstream handler runs exactly when the gate's outcome is
\* Admitted: it runs when the path is public or verification succeeded, and
\* never when the outcome is Rejected401 or RedirectToLogin; an identity is
\* attached only in the verified case, and it is built from the payload
\* verified for this request.
C20_Original ==
    Decided =>
        /\ Invoked <=> step.task.gate = "Admitted"
        /\ (PublicPath(StepRequest.path) \/ VerifierReturnedPayload)
               => Invoked
        /\ step.task.gate \in { "Rejected401", "RedirectToLogin" }
               => ~ Invoked
        /\ step.task.sso_user # None <=>
               (~ PublicPath(StepRequest.path) /\ VerifierReturnedPayload)
        /\ step.task.sso_user # None =>
               LET payload == Val(step.task.verified)
               IN  Val(step.task.sso_user) =
                       [ sub   |-> FieldOrEmpty(payload, "sub"),
                         name  |-> FieldOrEmpty(payload, "name"),
                         role  |-> FieldOrEmpty(payload, "role"),
                         email |-> FieldOrEmpty(payload, "email") ]

=============================================================================
